---- MODULE Spec2Model ----
(***************************************************************************)
(* The FHIR bundle loader of src/src/load_fhir.py as a state machine.      *)
(*                                                                         *)
(* A JSON object is a record whose DOMAIN is the set of keys present; the  *)
(* empty object {} and the empty list [] are the empty function << >>.     *)
(* A string that the code splits on '/' is the sequence of its segments,   *)
(* so '' is <<"">> and 'Patient/p1' is <<"Patient", "p1">>.                *)
(* The database is the pair (committed, txn): the tables as they are        *)
(* durable, and the tables as the loader's open psycopg2 transaction has   *)
(* them, its own uncommitted inserts included.  The loader is the only     *)
(* writer.                                                                 *)
(***************************************************************************)
EXTENDS Naturals, Sequences, FiniteSets, TLC

\* ---------------------------------------------------------------- bounds
MaxBundles == 2
MaxEntries == 2
MaxRuns == 2

\* ------------------------------------------------------- python helpers
\* Python None, SQL NULL.
None == "None"

\* The exceptions the loader can raise while it builds and executes an INSERT.
NoError == ""
KeyError == "KeyError"
ValueError == "ValueError"
IndexError == "IndexError"
DataError == "DataError"

\* dict.get(k, default)
Get(d, k, default) == IF k \in DOMAIN d THEN d[k] ELSE default

\* bool(x) of a dict or list: false exactly when it is empty.
Truthy(x) == DOMAIN x # {}

\* s.split('/')[-1] of a string given as its segments.
SplitLast(s) == s[Len(s)]

\* The texts of well-formed UUIDs, in the canonical lower-case hyphenated form
\* that str(uuid.UUID(..)) prints.
CanonicalUUIDs == {"p1", "p2", "p3", "e1", "c1", "c2", "d1", "r1", "k1", "b1"}

\* str(uuid.UUID(hex)): upper-case digits and the urn:uuid: prefix are accepted
\* and printed back in canonical form; anything else raises ValueError.
uuid_UUID(hex) ==
    CASE hex \in CanonicalUUIDs -> hex
      [] hex = "P1" -> "p1"
      [] hex = "urn:uuid:p1" -> "p1"
      [] hex = "urn:uuid:p3" -> "p3"
      [] OTHER -> ValueError

\* datetime.fromisoformat(dt_str.replace('Z', '+00:00')), None when dt_str is
\* falsy or does not parse.
parse_fhir_datetime(dt_str) ==
    CASE dt_str = None -> None
      [] dt_str = "" -> None
      [] dt_str = "2020-01-01T00:00:00Z" -> "2020-01-01T00:00:00+00:00"
      [] dt_str = "2020-01-01T00:00:00+00:00" -> "2020-01-01T00:00:00+00:00"
      [] dt_str = "2021-06-30T12:00:00Z" -> "2021-06-30T12:00:00+00:00"
      [] OTHER -> None

\* What PostgreSQL makes of a parameter bound to a column of type date
\* (patients.birth_date): NULL stays NULL, an ISO date is stored, any other
\* text is rejected with invalid input syntax (psycopg2 DataError).
pg_date(v) ==
    CASE v = None -> None
      [] v = "1970-01-01" -> "1970-01-01"
      [] v = "1985-05-05" -> "1985-05-05"
      [] OTHER -> DataError

\* ----------------------------------------------------------- extraction
\* The seven resource types load_fhir_data counts and inserts, and their tables.
ResourceTypes ==
    {"Patient", "Encounter", "Condition", "DiagnosticReport",
     "DocumentReference", "Claim", "ExplanationOfBenefit"}

tables ==
    {"patients", "encounters", "conditions", "diagnostic_reports",
     "document_references", "claims", "explanations_of_benefit"}

TableOf(resource_type) ==
    CASE resource_type = "Patient" -> "patients"
      [] resource_type = "Encounter" -> "encounters"
      [] resource_type = "Condition" -> "conditions"
      [] resource_type = "DiagnosticReport" -> "diagnostic_reports"
      [] resource_type = "DocumentReference" -> "document_references"
      [] resource_type = "Claim" -> "claims"
      [] resource_type = "ExplanationOfBenefit" -> "explanations_of_benefit"

\* The first exception of a left-to-right evaluation.
FirstRaised(excs) ==
    IF \A k \in 1..Len(excs) : excs[k] = NoError
    THEN NoError
    ELSE excs[CHOOSE k \in 1..Len(excs) :
                 excs[k] # NoError /\ \A j \in 1..(k - 1) : excs[j] = NoError]

\* str(uuid.UUID(resource['id'])): what it raises, and its value.
IdExc(resource) ==
    IF "id" \notin DOMAIN resource THEN KeyError
    ELSE IF uuid_UUID(resource.id) = ValueError THEN ValueError
    ELSE NoError

\* str(uuid.UUID(resource[key]['reference'].split('/')[-1])), key being
\* 'subject' or 'patient': the mandatory patient reference.
PatientRefExc(resource, key) ==
    IF key \notin DOMAIN resource THEN KeyError
    ELSE IF "reference" \notin DOMAIN resource[key] THEN KeyError
    ELSE IF uuid_UUID(SplitLast(resource[key].reference)) = ValueError THEN ValueError
    ELSE NoError

PatientRef(resource, key) == uuid_UUID(SplitLast(resource[key].reference))

\* str(uuid.UUID(resource.get(key, {}).get('reference', '').split('/')[-1]))
\*     if resource.get(key) else None
\* with key 'encounter' (Condition, DiagnosticReport) or 'claim'
\* (ExplanationOfBenefit): the guard is the truth value of the object, the
\* reference string defaults to ''.
OptionalRefText(resource, key) ==
    SplitLast(Get(Get(resource, key, << >>), "reference", <<"">>))

\* Mutant of OptionalRefExc: the reference is parsed without the guard.
OptionalRefExcUnguarded(resource, key) ==
    IF uuid_UUID(OptionalRefText(resource, key)) = ValueError THEN ValueError
    ELSE NoError

OptionalRefExc(resource, key) ==
    IF ~Truthy(Get(resource, key, << >>)) THEN NoError
    ELSE IF uuid_UUID(OptionalRefText(resource, key)) = ValueError THEN ValueError
    ELSE NoError

OptionalRef(resource, key) ==
    IF Truthy(Get(resource, key, << >>))
    THEN uuid_UUID(OptionalRefText(resource, key))
    ELSE None

\* The same for DocumentReference, whose encounter is the first element of the
\* list resource['context']['encounter'].
ContextEncounter(resource) == Get(Get(resource, "context", << >>), "encounter", << >>)

ContextRefText(resource) ==
    SplitLast(Get(Get(Get(resource, "context", << >>), "encounter", << << >> >>)[1],
                  "reference", <<"">>))

ContextRefExc(resource) ==
    IF ~Truthy(ContextEncounter(resource)) THEN NoError
    ELSE IF uuid_UUID(ContextRefText(resource)) = ValueError THEN ValueError
    ELSE NoError

ContextRef(resource) ==
    IF Truthy(ContextEncounter(resource))
    THEN uuid_UUID(ContextRefText(resource))
    ELSE None

\* resource.get(key, [{}])[0]: IndexError on an empty list.
FirstOfExc(resource, key) ==
    IF Len(Get(resource, key, << << >> >>)) = 0 THEN IndexError ELSE NoError

FirstOf(resource, key) == Get(resource, key, << << >> >>)[1]

\* What building the parameter tuple of each INSERT raises (NoError if nothing),
\* its elements evaluated left to right.
ParamsExc(resource) ==
    LET t == resource.resourceType IN
    CASE t = "Patient" ->
           FirstRaised(<<IdExc(resource), FirstOfExc(resource, "identifier")>>)
      [] t = "Encounter" ->
           FirstRaised(<<IdExc(resource), PatientRefExc(resource, "subject"),
                         FirstOfExc(resource, "type")>>)
      [] t \in {"Condition", "DiagnosticReport"} ->
           FirstRaised(<<IdExc(resource), PatientRefExc(resource, "subject"),
                         OptionalRefExc(resource, "encounter")>>)
      [] t = "DocumentReference" ->
           FirstRaised(<<IdExc(resource), PatientRefExc(resource, "subject"),
                         ContextRefExc(resource)>>)
      [] t = "Claim" ->
           FirstRaised(<<IdExc(resource), PatientRefExc(resource, "patient")>>)
      [] t = "ExplanationOfBenefit" ->
           FirstRaised(<<IdExc(resource), PatientRefExc(resource, "patient"),
                         OptionalRefExc(resource, "claim")>>)
      [] OTHER -> NoError

\* The parameter tuple of each INSERT, as the row it would create, Json(x)
\* being x itself.  Defined where ParamsExc is NoError.
\* Mutant of PatientParams: the identifier is stored as the document has it.
PatientParamsRawId(resource) ==
    [id |-> resource.id,
     resource_id |-> Get(FirstOf(resource, "identifier"), "value", None),
     gender |-> Get(resource, "gender", None),
     birth_date |-> Get(resource, "birthDate", None),
     deceased_date |-> parse_fhir_datetime(Get(resource, "deceasedDateTime", None)),
     marital_status |-> Get(resource, "maritalStatus", << >>),
     data |-> resource]

PatientParams(resource) ==
    [id |-> uuid_UUID(resource.id),
     resource_id |-> Get(FirstOf(resource, "identifier"), "value", None),
     gender |-> Get(resource, "gender", None),
     birth_date |-> Get(resource, "birthDate", None),
     deceased_date |-> parse_fhir_datetime(Get(resource, "deceasedDateTime", None)),
     marital_status |-> Get(resource, "maritalStatus", << >>),
     data |-> resource]

EncounterParams(resource) ==
    [id |-> uuid_UUID(resource.id),
     patient_id |-> PatientRef(resource, "subject"),
     status |-> Get(resource, "status", None),
     class |-> Get(resource, "class", << >>),
     type |-> FirstOf(resource, "type"),
     period_start |-> parse_fhir_datetime(Get(Get(resource, "period", << >>), "start", None)),
     period_end |-> parse_fhir_datetime(Get(Get(resource, "period", << >>), "end", None)),
     data |-> resource]

ConditionParams(resource) ==
    [id |-> uuid_UUID(resource.id),
     patient_id |-> PatientRef(resource, "subject"),
     encounter_id |-> OptionalRef(resource, "encounter"),
     code |-> Get(resource, "code", << >>),
     clinical_status |-> Get(resource, "clinicalStatus", << >>),
     verification_status |-> Get(resource, "verificationStatus", << >>),
     onset_date |-> parse_fhir_datetime(Get(resource, "onsetDateTime", None)),
     abatement_date |-> parse_fhir_datetime(Get(resource, "abatementDateTime", None)),
     data |-> resource]

DiagnosticReportParams(resource) ==
    [id |-> uuid_UUID(resource.id),
     patient_id |-> PatientRef(resource, "subject"),
     encounter_id |-> OptionalRef(resource, "encounter"),
     status |-> Get(resource, "status", None),
     effective_date |-> parse_fhir_datetime(Get(resource, "effectiveDateTime", None)),
     issued |-> parse_fhir_datetime(Get(resource, "issued", None)),
     data |-> resource]

DocumentReferenceParams(resource) ==
    [id |-> uuid_UUID(resource.id),
     patient_id |-> PatientRef(resource, "subject"),
     encounter_id |-> ContextRef(resource),
     status |-> Get(resource, "status", None),
     type |-> Get(resource, "type", << >>),
     date |-> parse_fhir_datetime(Get(resource, "date", None)),
     data |-> resource]

\* Mutant of ClaimParams: the use column is filled from the status field.
ClaimParamsUseFromStatus(resource) ==
    [id |-> uuid_UUID(resource.id),
     patient_id |-> PatientRef(resource, "patient"),
     status |-> Get(resource, "status", None),
     type |-> Get(resource, "type", << >>),
     use |-> Get(resource, "status", None),
     billable_period_start |->
         parse_fhir_datetime(Get(Get(resource, "billablePeriod", << >>), "start", None)),
     billable_period_end |->
         parse_fhir_datetime(Get(Get(resource, "billablePeriod", << >>), "end", None)),
     data |-> resource]

ClaimParams(resource) ==
    [id |-> uuid_UUID(resource.id),
     patient_id |-> PatientRef(resource, "patient"),
     status |-> Get(resource, "status", None),
     type |-> Get(resource, "type", << >>),
     use |-> Get(resource, "use", None),
     billable_period_start |->
         parse_fhir_datetime(Get(Get(resource, "billablePeriod", << >>), "start", None)),
     billable_period_end |->
         parse_fhir_datetime(Get(Get(resource, "billablePeriod", << >>), "end", None)),
     data |-> resource]

ExplanationOfBenefitParams(resource) ==
    [id |-> uuid_UUID(resource.id),
     patient_id |-> PatientRef(resource, "patient"),
     claim_id |-> OptionalRef(resource, "claim"),
     status |-> Get(resource, "status", None),
     type |-> Get(resource, "type", << >>),
     use |-> Get(resource, "use", None),
     data |-> resource]

Params(resource) ==
    LET t == resource.resourceType IN
    CASE t = "Patient" -> PatientParams(resource)
      [] t = "Encounter" -> EncounterParams(resource)
      [] t = "Condition" -> ConditionParams(resource)
      [] t = "DiagnosticReport" -> DiagnosticReportParams(resource)
      [] t = "DocumentReference" -> DocumentReferenceParams(resource)
      [] t = "Claim" -> ClaimParams(resource)
      [] t = "ExplanationOfBenefit" -> ExplanationOfBenefitParams(resource)

\* What the server raises when it executes the INSERT with these parameters:
\* patients.birth_date is of type date and receives resource.get('birthDate')
\* as it stands in the document.
ExecuteExc(resource_type, params) ==
    IF resource_type = "Patient" /\ pg_date(params.birth_date) = DataError
    THEN DataError
    ELSE NoError

\* The row the server stores for these parameters.
StoredRow(resource_type, params) ==
    IF resource_type = "Patient"
    THEN [params EXCEPT !.birth_date = pg_date(params.birth_date)]
    ELSE params

\* Mutants of the INSERT: ON CONFLICT (id) DO UPDATE, and no conflict check.
InsertOnConflictDoUpdate(rows, row) ==
    {r \in rows : r.id # row.id} \cup {row}

InsertUnchecked(rows, row) == rows \cup {row}

\* INSERT ... ON CONFLICT (id) DO NOTHING into a table as the transaction sees it.
InsertOnConflictDoNothing(rows, row) ==
    IF \E r \in rows : r.id = row.id THEN rows ELSE rows \cup {row}

\* ---------------------------------------------------------------- inputs
\* The resources the bundle files are built from.
PatientP1 ==
    [resourceType |-> "Patient", id |-> "p1", gender |-> "male",
     birthDate |-> "1970-01-01", identifier |-> << [value |-> "mrn-1"] >>]

\* The same identifier in upper case, with other field values.
PatientP1Upper ==
    [resourceType |-> "Patient", id |-> "P1", gender |-> "female",
     birthDate |-> "1985-05-05", deceasedDateTime |-> "2021-06-30T12:00:00Z"]

PatientBadDeceased ==
    [resourceType |-> "Patient", id |-> "p2", gender |-> "female",
     deceasedDateTime |-> "not-a-date"]

PatientBadBirthDate ==
    [resourceType |-> "Patient", id |-> "p2", gender |-> "other",
     birthDate |-> "not-a-date"]

EncounterE1 ==
    [resourceType |-> "Encounter", id |-> "e1", status |-> "finished",
     subject |-> [reference |-> <<"Patient", "p1">>],
     period |-> [start |-> "2020-01-01T00:00:00Z", end |-> "yesterday"]]

\* References a patient no bundle holds.
EncounterOrphan ==
    [resourceType |-> "Encounter", id |-> "e1", status |-> "planned",
     subject |-> [reference |-> <<"urn:uuid:p3">>]]

ConditionBadPatient ==
    [resourceType |-> "Condition", id |-> "c1",
     subject |-> [reference |-> <<"Patient", "not-a-uuid">>]]

ConditionNoEncounter ==
    [resourceType |-> "Condition", id |-> "c1",
     subject |-> [reference |-> <<"Patient", "p1">>],
     onsetDateTime |-> "last week"]

ConditionEmptyEncounter ==
    [resourceType |-> "Condition", id |-> "c2",
     subject |-> [reference |-> <<"Patient", "p1">>],
     encounter |-> << >>]

DiagnosticReportNoReference ==
    [resourceType |-> "DiagnosticReport", id |-> "d1", status |-> "final",
     subject |-> [reference |-> <<"Patient", "p1">>],
     encounter |-> [display |-> "visit"]]

DiagnosticReportD1 ==
    [resourceType |-> "DiagnosticReport", id |-> "d1", status |-> "final",
     subject |-> [reference |-> <<"Patient", "p1">>],
     encounter |-> [reference |-> <<"Encounter", "e1">>],
     effectiveDateTime |-> "2020-01-01T00:00:00+00:00", issued |-> "soon"]

DocumentReferenceR1 ==
    [resourceType |-> "DocumentReference", id |-> "r1", status |-> "current",
     subject |-> [reference |-> <<"Patient", "p2">>],
     context |-> [encounter |-> << [reference |-> <<"Encounter", "e1">>] >>],
     date |-> "2020-13-45"]

ClaimK1 ==
    [resourceType |-> "Claim", id |-> "k1", status |-> "active", use |-> "claim",
     patient |-> [reference |-> <<"Patient", "p1">>],
     billablePeriod |-> [start |-> "2020-01-01T00:00:00Z", end |-> "never"]]

ExplanationOfBenefitB1 ==
    [resourceType |-> "ExplanationOfBenefit", id |-> "b1", status |-> "active",
     use |-> "claim", patient |-> [reference |-> <<"Patient", "p1">>]]

ExplanationOfBenefitBadClaim ==
    [resourceType |-> "ExplanationOfBenefit", id |-> "b1", status |-> "active",
     patient |-> [reference |-> <<"Patient", "p1">>],
     claim |-> [reference |-> <<"Claim", "">>]]

\* A resource type the loader has no branch for.
ObservationO1 == [resourceType |-> "Observation", id |-> "not-a-uuid"]

Resources ==
    {PatientP1, PatientP1Upper, PatientBadDeceased, PatientBadBirthDate,
     EncounterE1, EncounterOrphan, ConditionBadPatient, ConditionNoEncounter,
     ConditionEmptyEncounter, DiagnosticReportNoReference, DiagnosticReportD1,
     DocumentReferenceR1, ClaimK1, ExplanationOfBenefitB1,
     ExplanationOfBenefitBadClaim, ObservationO1}

SeqsUpTo(S, n) == UNION {[1..k -> S] : k \in 0..n}

\* A bundle file: a JSON object with the resources under 'entry'.
\* A file that is a JSON object without that key.
BundleNoEntry == [resourceType |-> "Bundle"]

Bundles ==
    {[entry |-> [k \in DOMAIN rs |-> [resource |-> rs[k]]]] :
        rs \in SeqsUpTo(Resources, MaxEntries)} \cup {BundleNoEntry}

\* What glob lists: at least one file, the same list at every call.
FileLists == SeqsUpTo(Bundles, MaxBundles) \ {<< >>}

\* ----------------------------------------------------------------- state
VARIABLES
    files,             \* the bundle files under synthea/output/fhir, in glob order
    run,               \* how many times the script has been started
    pc,                \* where the script is
    conn,              \* the psycopg2 connection of this run
    committed,         \* table -> the rows that are durable in the store
    txn,               \* table -> the rows as the open transaction has them
    processed_counts,  \* resource type -> entries of that type seen in this run
    file_counts,       \* the same for the current file
    i,                 \* index of the current file (enumerate from 1)
    entry_index,       \* index of the next entry of the current file
    error,             \* the exception that ended this run, NoError if none
    db_counts,         \* what validate_data_load returned, << >> before it ran
    orphaned,          \* the orphan counts validate_data_load printed
    mismatches         \* the resource types the summary reports as mismatched

vars ==
    <<files, run, pc, conn, committed, txn, processed_counts, file_counts, i,
      entry_index, error, db_counts, orphaned, mismatches>>

EmptyTables == [t \in tables |-> {}]
ZeroCounts == [k \in ResourceTypes |-> 0]

\* What a statement of the open transaction reads.
Visible(t) == txn[t]

\* The entries of the file being processed.
Entries == files[i].entry

Init ==
    /\ files \in FileLists
    /\ run = 1
    /\ pc = "start"
    /\ conn = "none"
    /\ committed = EmptyTables
    /\ txn = EmptyTables
    /\ processed_counts = ZeroCounts
    /\ file_counts = ZeroCounts
    /\ i = 0
    /\ entry_index = 0
    /\ error = NoError
    /\ db_counts = << >>
    /\ orphaned = << >>
    /\ mismatches = {}

\* --------------------------------------------------------------- actions
\* Lines 64-80: connect, open a cursor, zero the counters, list the files.
Start ==
    /\ pc = "start"
    /\ conn' = "open"
    /\ processed_counts' = ZeroCounts
    /\ i' = 1
    /\ pc' = "file"
    /\ UNCHANGED <<files, run, committed, txn, file_counts, entry_index, error,
                   db_counts, orphaned, mismatches>>

\* Lines 83-92: the next file is read and its counters are zeroed; bundle['entry']
\* raises KeyError when the key is missing.
OpenFile ==
    /\ pc = "file"
    /\ i <= Len(files)
    /\ file_counts' = ZeroCounts
    /\ IF "entry" \in DOMAIN files[i]
       THEN /\ entry_index' = 1
            /\ pc' = "entry"
            /\ error' = error
       ELSE /\ entry_index' = entry_index
            /\ pc' = "raised"
            /\ error' = KeyError
    /\ UNCHANGED <<files, run, conn, committed, txn, processed_counts, i,
                   db_counts, orphaned, mismatches>>

\* Lines 96-98: the counters after an entry of this type is met.
Counted(counts, resource_type) ==
    IF resource_type \in DOMAIN counts
    THEN [counts EXCEPT ![resource_type] = @ + 1]
    ELSE counts

\* Lines 100-215: the transaction's rows after the INSERT of this resource.
Execute(resource) ==
    LET t == TableOf(resource.resourceType)
        row == StoredRow(resource.resourceType, Params(resource))
    IN  [txn EXCEPT ![t] = InsertOnConflictDoNothing(Visible(t), row)]

\* What processing this resource raises: while the parameters are built, or
\* when the statement is executed.
EntryExc(resource) ==
    IF resource.resourceType \notin ResourceTypes THEN NoError
    ELSE IF ParamsExc(resource) # NoError THEN ParamsExc(resource)
    ELSE ExecuteExc(resource.resourceType, Params(resource))

\* Mutant of ProcessEntry: an exception is swallowed and the loop goes on with
\* the next entry.
ProcessEntrySkipping ==
    /\ pc = "entry"
    /\ entry_index <= Len(Entries)
    /\ LET resource == Entries[entry_index].resource
           resource_type == resource.resourceType
       IN  /\ file_counts' = Counted(file_counts, resource_type)
           /\ processed_counts' = Counted(processed_counts, resource_type)
           /\ txn' = IF resource_type \in ResourceTypes /\ EntryExc(resource) = NoError
                     THEN Execute(resource)
                     ELSE txn
           /\ entry_index' = entry_index + 1
    /\ UNCHANGED <<files, run, pc, error, conn, committed, i, db_counts, orphaned,
                   mismatches>>

\* Lines 92-215: one pass of the entry loop.  The entry is counted, then the
\* branch of its type builds the parameters and executes the INSERT; an
\* exception leaves the loop and the function.
ProcessEntry ==
    /\ pc = "entry"
    /\ entry_index <= Len(Entries)
    /\ LET resource == Entries[entry_index].resource
           resource_type == resource.resourceType
       IN  /\ file_counts' = Counted(file_counts, resource_type)
           /\ processed_counts' = Counted(processed_counts, resource_type)
           /\ IF EntryExc(resource) # NoError
              THEN /\ pc' = "raised"
                   /\ error' = EntryExc(resource)
                   /\ UNCHANGED <<txn, entry_index>>
              ELSE /\ txn' = IF resource_type \in ResourceTypes
                             THEN Execute(resource)
                             ELSE txn
                   /\ entry_index' = entry_index + 1
                   /\ UNCHANGED <<pc, error>>
    /\ UNCHANGED <<files, run, conn, committed, i, db_counts, orphaned, mismatches>>

\* Lines 217-218: conn.commit() after the last entry of the file.
CommitFile ==
    /\ pc = "entry"
    /\ entry_index > Len(Entries)
    /\ committed' = txn
    /\ txn' = txn
    /\ i' = i + 1
    /\ pc' = "file"
    /\ UNCHANGED <<files, run, conn, processed_counts, file_counts, entry_index,
                   error, db_counts, orphaned, mismatches>>

\* SELECT COUNT(*) FROM child c LEFT JOIN patients p ON c.patient_id = p.id
\* WHERE p.id IS NULL
OrphanCount(child) ==
    Cardinality({c \in Visible(child) :
                    ~\E p \in Visible("patients") : c.patient_id = p.id})

\* Mutant of ValidateDataLoad: called while the last file is still to be read.
ValidateDataLoadEarly ==
    /\ pc = "file"
    /\ i >= Len(files)
    /\ db_counts' = [t \in tables |-> Cardinality(Visible(t))]
    /\ orphaned' = [t \in {"encounters", "conditions", "diagnostic_reports"} |->
                        OrphanCount(t)]
    /\ pc' = "summary"
    /\ UNCHANGED <<files, run, conn, committed, txn, processed_counts, file_counts,
                   i, entry_index, error, mismatches>>

\* Lines 16-62, called at line 225 once the file loop has ended: the row count
\* of every table is returned, three orphan counts are printed.
ValidateDataLoad ==
    /\ pc = "file"
    /\ i > Len(files)
    /\ db_counts' = [t \in tables |-> Cardinality(Visible(t))]
    /\ orphaned' = [t \in {"encounters", "conditions", "diagnostic_reports"} |->
                        OrphanCount(t)]
    /\ pc' = "summary"
    /\ UNCHANGED <<files, run, conn, committed, txn, processed_counts, file_counts,
                   i, entry_index, error, mismatches>>

\* Lines 227-246: the processed counts of three types are compared with the
\* stored counts, then the cursor and the connection are closed.
Summary ==
    /\ pc = "summary"
    /\ mismatches' =
          {k \in {"Patient", "Encounter", "Condition"} :
              processed_counts[k] # db_counts[TableOf(k)]}
    /\ conn' = "closed"
    /\ pc' = "done"
    /\ UNCHANGED <<files, run, committed, txn, processed_counts, file_counts, i,
                   entry_index, error, db_counts, orphaned>>

\* Mutant of Exit: the pending rows are committed when the run is aborted.
ExitCommitting ==
    /\ pc = "raised"
    /\ pc' = "exit"
    /\ conn' = "lost"
    /\ committed' = txn
    /\ txn' = txn
    /\ UNCHANGED <<files, run, processed_counts, file_counts, i,
                   entry_index, error, db_counts, orphaned, mismatches>>

\* Lines 256-262: an exception leaves load_fhir_data with the connection open,
\* __main__ prints it and raises it again, and the process ends.  The server
\* discards the transaction of a connection that went away without a commit.
Exit ==
    /\ pc = "raised"
    /\ pc' = "exit"
    /\ conn' = "lost"
    /\ txn' = committed
    /\ UNCHANGED <<files, run, committed, processed_counts, file_counts, i,
                   entry_index, error, db_counts, orphaned, mismatches>>

\* The script is started again over the same directory and the same store.
Rerun ==
    /\ pc \in {"done", "exit"}
    /\ run < MaxRuns
    /\ run' = run + 1
    /\ pc' = "start"
    /\ conn' = "none"
    /\ processed_counts' = ZeroCounts
    /\ file_counts' = ZeroCounts
    /\ i' = 0
    /\ entry_index' = 0
    /\ error' = NoError
    /\ db_counts' = << >>
    /\ orphaned' = << >>
    /\ mismatches' = {}
    /\ UNCHANGED <<files, committed, txn>>

Next ==
    \/ Start
    \/ OpenFile
    \/ ProcessEntry
    \/ CommitFile
    \/ ValidateDataLoad
    \/ Summary
    \/ Exit
    \/ Rerun

Spec == Init /\ [][Next]_vars

\* ---------------------------------------------------------------- claims
\* Every entry of the bundle is processed without an exception.
BundleLoads(bundle) ==
    /\ "entry" \in DOMAIN bundle
    /\ \A k \in DOMAIN bundle.entry : EntryExc(bundle.entry[k].resource) = NoError

\* The tables after the rows of these entries are inserted in order.
RECURSIVE InsertEntries(_, _)
InsertEntries(store, entries) ==
    IF entries = << >> THEN store
    ELSE LET resource == Head(entries).resource
             t == TableOf(resource.resourceType)
             row == StoredRow(resource.resourceType, Params(resource))
         IN  InsertEntries(
                 IF resource.resourceType \in ResourceTypes
                 THEN [store EXCEPT ![t] = InsertOnConflictDoNothing(@, row)]
                 ELSE store,
                 Tail(entries))

\* The tables after these files' bundles are loaded whole, one after another,
\* up to the first bundle that does not load: that one contributes nothing.
RECURSIVE LoadFiles(_, _)
LoadFiles(store, fs) ==
    IF fs = << >> \/ ~BundleLoads(Head(fs)) THEN store
    ELSE LoadFiles(InsertEntries(store, Head(fs).entry), Tail(fs))

RECURSIVE StoreAfterRuns(_)
StoreAfterRuns(n) ==
    IF n = 0 THEN EmptyTables ELSE LoadFiles(StoreAfterRuns(n - 1), files)

\* The files of this run whose commit has been executed.
FilesCommitted == IF pc = "start" THEN 0 ELSE i - 1

\* C1: bundle atomicity.  In every state, also after a run has ended normally
\* or by an exception, the durable tables hold exactly the rows of the bundles
\* whose commit was executed, each of them whole; the bundle in progress and the
\* bundle that raised contribute no row.
C1_BundleAtomicity ==
    committed = LoadFiles(StoreAfterRuns(run - 1), SubSeq(files, 1, FilesCommitted))

\* C1 witness: the first run has ended by the exception of the Condition with
\* the malformed patient reference, which follows a valid Patient in the second
\* bundle; the first bundle's rows are durable, that Patient's row is not.
C1_Witness ==
    /\ run = 1
    /\ pc = "exit"
    /\ i = 2
    /\ entry_index = 2
    /\ error = ValueError
    /\ "entry" \in DOMAIN files[i]
    /\ Entries[1].resource = PatientP1
    /\ Entries[2].resource = ConditionBadPatient
    /\ committed["patients"] = {}
    /\ committed["claims"] # {}

\* No bundle of the files raises.
FilesLoad == \A k \in DOMAIN files : BundleLoads(files[k])

\* C2: idempotence.  When every bundle loads, no step of a run after the first
\* changes the durable content of any table.
C2_Idempotence ==
    [][(run >= 2 /\ FilesLoad) => committed' = committed]_vars

\* C2 witness: a second run over files that load has completed, with rows stored
\* and an identifier that occurs in two bundles.
C2_Witness ==
    /\ run = 2
    /\ pc = "done"
    /\ Len(files) = 2
    /\ files[1].entry = << [resource |-> PatientP1] >>
    /\ files[2].entry = << [resource |-> PatientP1Upper], [resource |-> EncounterE1] >>
    /\ Cardinality(committed["patients"]) = 1
    /\ Cardinality(committed["encounters"]) = 1

\* Identifiers are unique in every table, durable or as the open transaction
\* has it.
UniqueIds ==
    \A t \in tables :
        /\ \A r1, r2 \in committed[t] : r1.id = r2.id => r1 = r2
        /\ \A r1, r2 \in txn[t] : r1.id = r2.id => r1 = r2

\* A step removes or changes no durable row, and none of the open transaction's
\* rows unless the run is aborted.
RowsKept ==
    \A t \in tables :
        /\ committed[t] \subseteq committed'[t]
        /\ pc' # "exit" => txn[t] \subseteq txn'[t]

\* C3: first write wins.  Identifiers stay unique per table, and once a row
\* exists no later insert changes it or adds another row with its identifier.
C3_FirstWriteWins == []UniqueIds /\ [][RowsKept]_vars

\* C3 witness: a Patient with the identifier of a stored row and other field
\* values has been inserted, and the stored row is the first one.
C3_Witness ==
    /\ pc = "entry"
    /\ entry_index = 2
    /\ Entries[1].resource = PatientP1Upper
    /\ \E r \in committed["patients"] : r.data = PatientP1 /\ r.gender = "male"

\* The resource types with an optional reference, and the field that holds it.
OptionalKinds == {"Condition", "DiagnosticReport", "DocumentReference", "ExplanationOfBenefit"}

OptionalColumn(resource_type) ==
    IF resource_type = "ExplanationOfBenefit" THEN "claim_id" ELSE "encounter_id"

\* The optional reference field is in the document.
OptionalPresent(resource) ==
    CASE resource.resourceType = "ExplanationOfBenefit" -> "claim" \in DOMAIN resource
      [] resource.resourceType = "DocumentReference" ->
           "context" \in DOMAIN resource /\ "encounter" \in DOMAIN resource.context
      [] OTHER -> "encounter" \in DOMAIN resource

\* The identifier and the mandatory patient reference are in the document and
\* well-formed.
MandatoryWellFormed(resource) ==
    LET key == IF resource.resourceType \in {"Claim", "ExplanationOfBenefit"}
               THEN "patient" ELSE "subject"
    IN  /\ "id" \in DOMAIN resource
        /\ uuid_UUID(resource.id) # ValueError
        /\ key \in DOMAIN resource
        /\ "reference" \in DOMAIN resource[key]
        /\ uuid_UUID(SplitLast(resource[key].reference)) # ValueError

\* The entry whose processing raised.
Raising == Entries[entry_index].resource

RaisedInEntry == pc \in {"raised", "exit"} /\ "entry" \in DOMAIN files[i]

\* The resources of the files committed in this run.
CommittedResources ==
    UNION {{files[j].entry[k].resource : k \in DOMAIN files[j].entry} :
              j \in 1..FilesCommitted}
\* The text the optional reference is parsed from: the trailing segment of
\* the reference string, '' when the object holds none.
OptionalText(resource) ==
    CASE resource.resourceType = "ExplanationOfBenefit" -> OptionalRefText(resource, "claim")
      [] resource.resourceType = "DocumentReference" -> ContextRefText(resource)
      [] OTHER -> OptionalRefText(resource, "encounter")

\* C4: a reference that is in the document and whose trailing segment is no
\* UUID (the reference string empty or missing included) is fatal: no stored
\* row has a null foreign key for an optional reference its document holds, and
\* no committed bundle holds a resource with such a reference.
C4_MalformedReferenceIsFatal ==
    /\ \A kind \in OptionalKinds : \A row \in Visible(TableOf(kind)) :
          OptionalPresent(row.data) => row[OptionalColumn(kind)] # None
    /\ \A resource \in CommittedResources :
          (resource.resourceType \in OptionalKinds /\ OptionalPresent(resource))
              => uuid_UUID(OptionalText(resource)) # ValueError

C6_LenientDates ==
    RaisedInEntry => ParamsExc(Raising) # NoError

\* The positions <<file, entry>> of this run processed without an exception.
Succeeded ==
    UNION {{<<j, k>> : k \in DOMAIN files[j].entry} : j \in 1..FilesCommitted}
    \cup (IF pc \in {"entry", "raised", "exit"} /\ "entry" \in DOMAIN files[i]
          THEN {<<i, k>> : k \in 1..(entry_index - 1)}
          ELSE {})

TypeAt(pos) == files[pos[1]].entry[pos[2]].resource.resourceType

\* The skipped counter of the run; the loader keeps no counter under that or
\* any other key than the seven resource types.
skipped == Get(processed_counts, "skipped", 0)

\* C7: an unrecognized entry is counted as skipped: at the end of a run the
\* skipped counter is the number of entries of no supported type.
C7_SkippedCounted ==
    pc \in {"summary", "done"}
        => skipped = Cardinality({pos \in Succeeded : TypeAt(pos) \notin ResourceTypes})

\* C8: attempted counters.  At every point of a run processed_counts[T] is the
\* number of resources of type T extracted without an exception so far; the
\* resource that raised is not counted.
C8_AttemptedCounters ==
    \A T \in ResourceTypes :
        processed_counts[T] = Cardinality({pos \in Succeeded : TypeAt(pos) = T})

Aborted == pc \in {"raised", "exit"}

\* Nothing that raises has been passed: the files before the current one load,
\* and so do the entries before the current one.
NothingRaisedBefore ==
    /\ \A j \in 1..FilesCommitted : BundleLoads(files[j])
    /\ pc = "entry" =>
          \A k \in 1..(entry_index - 1) : EntryExc(Entries[k].resource) = NoError

\* C9: abort on the first fatal error.  The run is aborted by the first entry
\* or bundle that raises; from then on it reads no entry and no file, inserts
\* and commits nothing, and the validator does not run.
C9_AbortOnFirstError ==
    /\ [](NothingRaisedBefore /\ (Aborted => error # NoError /\ db_counts = << >>))
    /\ [][(Aborted /\ run' = run) =>
             /\ Aborted'
             /\ committed' = committed
             /\ \A t \in tables : txn'[t] \subseteq txn[t]
             /\ UNCHANGED <<i, entry_index, processed_counts, file_counts, error,
                            db_counts>>]_vars

\* C9 witness: the first entry of the first of two bundles raised and the run
\* has ended; a second entry and a bundle that loads were never read.
C9_Witness ==
    /\ run = 1
    /\ pc = "exit"
    /\ i = 1
    /\ Len(files) = 2
    /\ "entry" \in DOMAIN files[1]
    /\ entry_index = 1
    /\ Len(files[1].entry) = 2
    /\ BundleLoads(files[2])
    /\ files[2].entry # << >>
    /\ committed = EmptyTables

ValidatorRan == db_counts # << >>

\* C10: validator barrier.  validate_data_load has run only when every file's
\* bundle was processed and committed, it counts the durable rows, and it runs
\* once per run; between two bundles nothing is uncommitted, and the open
\* transaction holds rows of the current bundle only.
C10_ValidatorBarrier ==
    /\ [](/\ ValidatorRan =>
               /\ FilesCommitted = Len(files)
               /\ FilesLoad
               /\ error = NoError
               /\ txn = committed
               /\ db_counts = [t \in tables |-> Cardinality(committed[t])]
               /\ \A resource \in CommittedResources :
                     resource.resourceType \in ResourceTypes
                        => \E row \in committed[TableOf(resource.resourceType)] :
                              row.id = uuid_UUID(resource.id)
          /\ pc = "file" => txn = committed
          /\ pc = "entry" =>
               \A t \in tables : \A row \in txn[t] \ committed[t] :
                   \E k \in 1..(entry_index - 1) : Entries[k].resource = row.data)
    /\ [][(ValidatorRan /\ run' = run) => db_counts' = db_counts]_vars

\* C10 witness: the validator has run after two bundles of two entries each.
C10_Witness ==
    /\ pc = "summary"
    /\ Len(files) = 2
    /\ Len(files[1].entry) = 2
    /\ Len(files[2].entry) = 2
    /\ db_counts["patients"] = 1
    /\ db_counts["encounters"] = 1
\* The run has completed: the validator and the summary have run.
Completed == pc = "done"

\* C11: count reconciliation covers every entity kind.  After a completed run
\* the summary reports exactly the types, of all seven, whose processed counter
\* differs from the stored row count.
C11_AllKindsReconciled ==
    Completed =>
        mismatches = {k \in ResourceTypes : processed_counts[k] # db_counts[TableOf(k)]}

\* The tables whose rows carry a mandatory patient reference.
ChildTables == tables \ {"patients"}

\* The rows of a child table, as stored, whose patient_id is no stored patient.
Orphans(child) ==
    {c \in committed[child] : ~\E p \in committed["patients"] : c.patient_id = p.id}

\* C12: orphan probe coverage.  Once the validator has run, its report holds,
\* for each of the six kinds with a mandatory patient reference, the number of
\* stored rows of that kind whose patient_id matches no stored patient.
C12_OrphanProbeCoverage ==
    ValidatorRan =>
        \A child \in ChildTables :
            /\ child \in DOMAIN orphaned
            /\ orphaned[child] = Cardinality(Orphans(child))

\* The resources of all the files.
AllResources ==
    UNION {IF "entry" \in DOMAIN files[j]
           THEN {files[j].entry[k].resource : k \in DOMAIN files[j].entry}
           ELSE {} : j \in DOMAIN files}

\* The field of the mandatory patient reference.
PatientKey(resource) ==
    IF resource.resourceType \in {"Claim", "ExplanationOfBenefit"}
    THEN "patient" ELSE "subject"

\* Every bundle loads, and every patient identifier a resource of the files
\* references is the identifier of a Patient resource of the files.
ReferencedPatientsInInput ==
    /\ FilesLoad
    /\ \A r \in AllResources :
          r.resourceType \in (ResourceTypes \ {"Patient"}) =>
              \E q \in AllResources :
                  /\ q.resourceType = "Patient"
                  /\ uuid_UUID(q.id) = uuid_UUID(SplitLast(r[PatientKey(r)].reference))

KindOf(t) == CHOOSE k \in ResourceTypes : TableOf(k) = t

\* The positions <<file, entry>> of the files, in processing order.
Positions ==
    UNION {IF "entry" \in DOMAIN files[j]
           THEN {<<j, k>> : k \in DOMAIN files[j].entry}
           ELSE {} : j \in DOMAIN files}

Before(p, q) == p[1] < q[1] \/ (p[1] = q[1] /\ p[2] < q[2])

ResourceAt(pos) == files[pos[1]].entry[pos[2]].resource

\* The resource is a resource of that kind with that identifier (as a UUID).
Carries(resource, kind, id) ==
    /\ resource.resourceType = kind
    /\ "id" \in DOMAIN resource
    /\ uuid_UUID(resource.id) = id

\* The row's payload is the first resource of the files, in processing order,
\* of the table's kind and with the row's identifier.
PayloadIsFirstSource(t, row) ==
    \E p \in Positions :
        /\ ResourceAt(p) = row.data
        /\ Carries(row.data, KindOf(t), row.id)
        /\ \A q \in Positions : Before(q, p) => ~Carries(ResourceAt(q), KindOf(t), row.id)

\* The row's scalar columns are the values of its payload's fields.
ScalarsMatch(t, row) ==
    /\ t = "patients" =>
          /\ row.gender = Get(row.data, "gender", None)
          /\ row.resource_id = Get(FirstOf(row.data, "identifier"), "value", None)
    /\ t \in {"encounters", "diagnostic_reports", "document_references", "claims",
              "explanations_of_benefit"} =>
          row.status = Get(row.data, "status", None)
    /\ t \in {"claims", "explanations_of_benefit"} =>
          row.use = Get(row.data, "use", None)

\* The texts of the row's identifier and foreign keys are the texts of the
\* payload's identifier and of the trailing segments of its reference strings.
KeysVerbatim(t, row) ==
    /\ row.id = row.data.id
    /\ t \in ChildTables =>
          row.patient_id = SplitLast(row.data[PatientKey(row.data)].reference)
    /\ KindOf(t) \in OptionalKinds =>
          (row[OptionalColumn(KindOf(t))] # None =>
              row[OptionalColumn(KindOf(t))] = OptionalText(row.data))

\* The same, up to the parsing of the texts as UUIDs.
KeysParsed(t, row) ==
    /\ row.id = uuid_UUID(row.data.id)
    /\ t \in ChildTables =>
          row.patient_id = uuid_UUID(SplitLast(row.data[PatientKey(row.data)].reference))
    /\ KindOf(t) \in OptionalKinds =>
          (row[OptionalColumn(KindOf(t))] # None =>
              row[OptionalColumn(KindOf(t))] = uuid_UUID(OptionalText(row.data)))

C15_ConnectionReleased ==
    pc \in {"raised", "done"} => conn = "closed"

====
